---- MODULE Spec2Model ----
(***************************************************************************)
(* Detection evaluation (fiftyone/utils/eval/detection.py): the method     *)
(* resolution, the per-sample evaluation loop with optional persistence,   *)
(* the TP/FP/FN tally and the record/clear lifecycle of a named            *)
(* evaluation, as a state machine.                                         *)
(***************************************************************************)
EXTENDS Integers, Sequences, FiniteSets, TLC

VARIABLES
    dataset,        \* the persisted collection: media type, sample documents, evaluations
    pc,             \* position of the (single-threaded) caller
    args,           \* arguments of the call in progress
    config,         \* evaluate_detections: the resolved config
    matches,        \* evaluate_detections: the global match accumulator
    idx,            \* evaluate_detections: number of samples whose loop body has finished
    sample,         \* evaluate_detections: the in-memory sample of the current iteration
    nimages,        \* evaluate_detections: number of images of the current sample evaluated
    sample_tp,      \* evaluate_detections: running totals of the current sample
    sample_fp,
    sample_fn,
    result,         \* what the call returned or raised
    before,         \* history: the persisted collection when the call started
    log,            \* history: the events of the call in progress, in order
    nevals,         \* number of evaluate_detections calls made so far
    nclears,        \* number of clear_detection_evaluation calls made so far
    cleared,        \* history: the eval_keys that a clear has removed
    failed,         \* history: the eval_keys of the named runs that ended in an error
    prev            \* history: the eval_key of the preceding call if it was such a scan

vars == <<dataset, pc, args, config, matches, idx, sample, nimages,
          sample_tp, sample_fp, sample_fn, result, before, log, nevals, nclears, cleared,
          failed, prev>>

-----------------------------------------------------------------------------
(* Bounds of the model *)

NumSamples == 2
MaxFrames == 2
MaxEvaluations == 2
MaxClears == 2
MaxTallyLen == 3

-----------------------------------------------------------------------------
(* Values *)

None == "None"

Labels == {"cat", "dog"}

\* a match is a pair <<gt_label, pred_label>>, either side possibly None
MatchValues == (Labels \cup {None}) \X (Labels \cup {None})

RECURSIVE SeqsUpTo(_, _)
SeqsUpTo(S, n) ==
    IF n = 0 THEN {<<>>}
    ELSE LET shorter == SeqsUpTo(S, n - 1)
         IN  shorter \cup {Append(s, x) : s \in {t \in shorter : Len(t) = n - 1}, x \in S}

EmptyFn == [x \in {} |-> None]

-----------------------------------------------------------------------------
(* _tally_matches *)

\* the mutant counts each absent side on its own (if / if instead of if / elif)
TallyStepIndependentTests(t, m) ==
    [tp |-> t.tp + (IF m[1] # None /\ m[2] # None THEN 1 ELSE 0),
     fp |-> t.fp + (IF m[1] = None THEN 1 ELSE 0),
     fn |-> t.fn + (IF m[2] = None THEN 1 ELSE 0)]

\* the mutant counts a pair of different labels as a false positive
TallyStepLabelsCompared(t, m) ==
    IF m[1] = None THEN [t EXCEPT !.fp = @ + 1]
    ELSE IF m[2] = None THEN [t EXCEPT !.fn = @ + 1]
    ELSE IF m[1] = m[2] THEN [t EXCEPT !.tp = @ + 1]
    ELSE [t EXCEPT !.fp = @ + 1]

\* the mutant leaves an unmatched ground truth uncounted
TallyStepSkipsUnmatchedGt(t, m) ==
    IF m[1] = None THEN [t EXCEPT !.fp = @ + 1]
    ELSE IF m[2] = None THEN t
    ELSE [t EXCEPT !.tp = @ + 1]

\* one iteration of the loop over the matches
TallyStep(t, m) ==
    IF m[1] = None THEN [t EXCEPT !.fp = @ + 1]
    ELSE IF m[2] = None THEN [t EXCEPT !.fn = @ + 1]
    ELSE [t EXCEPT !.tp = @ + 1]

RECURSIVE TallyLoop(_, _)
TallyLoop(t, ms) ==
    IF ms = <<>> THEN t ELSE TallyLoop(TallyStep(t, Head(ms)), Tail(ms))

tally_matches(ms) == TallyLoop([tp |-> 0, fp |-> 0, fn |-> 0], ms)

-----------------------------------------------------------------------------
(* The persisted collection *)

IMAGE == "image"
VIDEO == "video"

FRAMES_PREFIX == "frames"

\* a field selector is the sequence of its dot-separated components
PRED == <<"predictions">>
GT == <<"ground_truth">>
FRAMES_PRED == <<FRAMES_PREFIX, "predictions">>
FRAMES_GT == <<FRAMES_PREFIX, "ground_truth">>

LabelFields == {"predictions", "ground_truth"}

Keys == {"k1", "k2"}

NoDets == [f \in LabelFields |-> {}]

\* a frame document: for each label field, the attributes its detections carry
NewFrame == [dets |-> NoDets]

\* a sample document: top-level fields, sample-level label fields, frames
NewSample(nframes) ==
    [fields |-> [n \in {"filepath"} |-> "img"],
     dets   |-> NoDets,
     frames |-> [n \in 1..nframes |-> NewFrame]]

\* the number of frames of the i-th sample of the video collection: the odd
\* samples have MaxFrames frames, the even ones none
FrameCount(i) == IF i % 2 = 1 THEN MaxFrames ELSE 0

\* the collections evaluated: one of images, one of videos
Datasets ==
    {[media_type |-> IMAGE,
      docs |-> [i \in 1..NumSamples |-> NewSample(0)],
      evaluations |-> EmptyFn],
     [media_type |-> VIDEO,
      docs |-> [i \in 1..NumSamples |-> NewSample(FrameCount(i))],
      evaluations |-> EmptyFn]}

\* the (pred_field, gt_field) pairs that name label fields of the collection
FieldPairs(ds) ==
    IF ds.media_type = VIDEO
    THEN {<<PRED, GT>>, <<FRAMES_PRED, FRAMES_GT>>}
    ELSE {<<PRED, GT>>}

startswith(field, prefix) == Len(field) > 1 /\ field[1] = prefix

Without(f, names) == [n \in DOMAIN f \ names |-> f[n]]

-----------------------------------------------------------------------------
(* Method resolution *)

Ok(v) == [ok |-> TRUE, value |-> v]
Raise(e) == [ok |-> FALSE, error |-> e]

\* a config object: its class and the attributes set on it
NoConfig == [cls |-> None, attrs |-> EmptyFn]
COCOEvaluationConfig == [cls |-> "COCOEvaluationConfig", attrs |-> EmptyFn]
CustomConfig == [cls |-> "CustomConfig", attrs |-> EmptyFn]

DEFAULT_METHOD == "coco"

list_detection_methods == {"coco"}

\* the mutant accepts every method name
GetDefaultConfigAnyMethod(method) == Ok(COCOEvaluationConfig)

get_default_config(method) ==
    IF method = "coco" THEN Ok(COCOEvaluationConfig)
    ELSE Raise("ValueError")

\* the mutant sets only the options that the config class declares
SetDeclaredAttrs(cfg, kwargs) ==
    [cfg EXCEPT !.attrs = [n \in DOMAIN kwargs \cap {"iou", "classwise"} |-> kwargs[n]] @@ @]

\* the for loop of setattr calls
SetAttrs(cfg, kwargs) == [cfg EXCEPT !.attrs = kwargs @@ @]

parse_config(cfg, method, kwargs) ==
    LET r == IF cfg = NoConfig
             THEN get_default_config(IF method = None THEN DEFAULT_METHOD ELSE method)
             ELSE Ok(cfg)
    IN  IF r.ok THEN Ok(SetAttrs(r.value, kwargs)) ELSE r

\* the method names, configs and keyword overrides a caller may give
Methods == {None, "coco", "yolo", "open-images", ""}
Configs == {NoConfig, CustomConfig, [CustomConfig EXCEPT !.attrs = [n \in {"iou"} |-> 50]]}
OptionNames == {"iou", "classwise", "no_such_option"}
Kwargs == UNION {[names -> {25, 75}] : names \in SUBSET OptionNames}

\* the (method, config) selections evaluate_detections is called with: the
\* default, an unknown method, and a config given along with an unknown method
EvalSelections == {<<None, NoConfig>>, <<"yolo", NoConfig>>, <<"yolo", CustomConfig>>}

-----------------------------------------------------------------------------
(* The matching strategy: eval_method.evaluate_image *)

MaxImageMatches == 1

StrategyMatches == {<<"cat", "dog">>, <<None, "cat">>, <<"dog", None>>}

\* the match lists a strategy call may return
\* the output for an image with a matched pair and an unmatched ground truth
TwoMatches == <<<<"cat", "dog">>, <<"dog", None>>>>

ImageMatchLists == SeqsUpTo(StrategyMatches, MaxImageMatches) \cup {TwoMatches}

\* image[field]: the label field of a sample or frame that a selector names
FieldName(field) == field[Len(field)]

EvalAttrs(eval_key) == {eval_key \o "_id", eval_key \o "_iou"}

\* the strategy sets <eval_key>_id and <eval_key>_iou on every object of both
\* sets of the image it is given; with no eval_key it works on copies
StrategyWrites(image, gt_field, pred_field, eval_key, out) ==
    IF eval_key = None THEN image
    ELSE LET hasgt == \E i \in DOMAIN out : out[i][1] # None
             haspred == \E i \in DOMAIN out : out[i][2] # None
             g == FieldName(gt_field)
             p == FieldName(pred_field)
         IN  [image EXCEPT
                !.dets[g] = IF hasgt THEN @ \cup EvalAttrs(eval_key) ELSE @,
                !.dets[p] = IF haspred THEN @ \cup EvalAttrs(eval_key) ELSE @]

-----------------------------------------------------------------------------
(* The evaluation info store and the field deletions of the collection *)

record_eval_info(ds, eval_key, pred_field, gt_field, cfg) ==
    [ds EXCEPT !.evaluations =
        (eval_key :> [pred_field |-> pred_field, gt_field |-> gt_field, config |-> cfg]) @@ @]

get_eval_info(ds, eval_key) ==
    IF eval_key \in DOMAIN ds.evaluations
    THEN Ok(ds.evaluations[eval_key])
    ELSE Raise("KeyError")

delete_eval_info(ds, eval_key) ==
    [ds EXCEPT !.evaluations = Without(@, {eval_key})]

\* samples._handle_frame_field: strips the frames prefix of a frame field
handle_frame_field(ds, field) ==
    IF ds.media_type = VIDEO /\ startswith(field, FRAMES_PREFIX)
    THEN [field |-> Tail(field), is_frame_field |-> TRUE]
    ELSE [field |-> field, is_frame_field |-> FALSE]

\* the attributes that the paths <field>.detections.<attr> name, per label field
PathAttrs(paths, f) ==
    {path[3] : path \in {q \in paths : Len(q) = 3 /\ q[1] = f /\ q[2] = "detections"}}

\* the top-level fields that the paths name
PathNames(paths) == {path[1] : path \in {q \in paths : Len(q) = 1}}

DeleteFromDoc(doc, paths) ==
    [doc EXCEPT !.fields = Without(@, PathNames(paths)),
                !.dets = [f \in LabelFields |-> @[f] \ PathAttrs(paths, f)]]

delete_sample_fields(ds, paths) ==
    [ds EXCEPT !.docs = [i \in DOMAIN @ |-> DeleteFromDoc(@[i], paths)]]

delete_frame_fields(ds, paths) ==
    [ds EXCEPT !.docs = [i \in DOMAIN @ |->
        [@[i] EXCEPT !.frames = [n \in DOMAIN @ |->
            [@[n] EXCEPT !.dets = [f \in LabelFields |-> @[f] \ PathAttrs(paths, f)]]]]]]

-----------------------------------------------------------------------------
(* clear_detection_evaluation *)

SampleCountFields(eval_key) ==
    {<<eval_key \o "_tp">>, <<eval_key \o "_fp">>, <<eval_key \o "_fn">>}

DetectionFields(pred_field, gt_field, eval_key) ==
    {pred_field \o <<"detections", eval_key \o "_id">>,
     pred_field \o <<"detections", eval_key \o "_iou">>,
     gt_field \o <<"detections", eval_key \o "_id">>,
     gt_field \o <<"detections", eval_key \o "_iou">>}

\* the mutant deletes the sample-level counts before it looks the key up
ClearCountsBeforeLookup(ds, eval_key) ==
    LET d0 == delete_sample_fields(ds, SampleCountFields(eval_key))
        info == get_eval_info(d0, eval_key)
    IN  IF ~info.ok THEN [ok |-> FALSE, error |-> info.error, ds |-> d0]
        ELSE LET p == handle_frame_field(d0, info.value.pred_field)
                 g == handle_frame_field(d0, info.value.gt_field)
                 fields == DetectionFields(p.field, g.field, eval_key)
                 d1 == IF p.is_frame_field
                       THEN delete_frame_fields(d0, fields)
                       ELSE delete_sample_fields(d0, fields)
             IN  [ok |-> TRUE, error |-> None, ds |-> delete_eval_info(d1, eval_key)]

\* the mutant leaves the false negative counts behind
ClearWithoutFn(ds, eval_key) ==
    LET info == get_eval_info(ds, eval_key)
    IN  IF ~info.ok THEN [ok |-> FALSE, error |-> info.error, ds |-> ds]
        ELSE LET p == handle_frame_field(ds, info.value.pred_field)
                 g == handle_frame_field(ds, info.value.gt_field)
                 fields == DetectionFields(p.field, g.field, eval_key)
                 d1 == IF p.is_frame_field
                       THEN delete_frame_fields(ds, fields)
                       ELSE delete_sample_fields(ds, fields)
                 d2 == delete_sample_fields(d1,
                           {<<eval_key \o "_tp">>, <<eval_key \o "_fp">>})
             IN  [ok |-> TRUE, error |-> None, ds |-> delete_eval_info(d2, eval_key)]

\* the outcome of the whole function: raised or not, and the collection it leaves
clear_detection_evaluation(ds, eval_key) ==
    LET info == get_eval_info(ds, eval_key)
    IN  IF ~info.ok THEN [ok |-> FALSE, error |-> info.error, ds |-> ds]
        ELSE LET p == handle_frame_field(ds, info.value.pred_field)
                 g == handle_frame_field(ds, info.value.gt_field)
                 fields == DetectionFields(p.field, g.field, eval_key)
                 d1 == IF p.is_frame_field
                       THEN delete_frame_fields(ds, fields)
                       ELSE delete_sample_fields(ds, fields)
                 d2 == delete_sample_fields(d1, SampleCountFields(eval_key))
             IN  [ok |-> TRUE, error |-> None, ds |-> delete_eval_info(d2, eval_key)]

-----------------------------------------------------------------------------
(* DetectionResults *)

MISSING == "none"

SubstituteMissing(y, missing) == [i \in DOMAIN y |-> IF y[i] = None THEN missing ELSE y[i]]

\* ytrue, ypred = zip(*matches) needs two sequences to unpack: zip of no
\* arguments yields none
DetectionResults(ms, missing) ==
    IF ms = <<>> THEN Raise("ValueError")
    ELSE Ok([ytrue |-> SubstituteMissing([i \in DOMAIN ms |-> ms[i][1]], missing),
             ypred |-> SubstituteMissing([i \in DOMAIN ms |-> ms[i][2]], missing)])

-----------------------------------------------------------------------------
(* evaluate_detections *)

NoArgs == [op |-> None]
NoSample == NewSample(0)
NoResult == [kind |-> None]

\* the mutant takes every sample of a video collection frame by frame
ProcessingFramesByMediaType == dataset.media_type = VIDEO

processing_frames ==
    /\ dataset.media_type = VIDEO
    /\ startswith(args.pred_field, FRAMES_PREFIX)

\* the images of the current sample
images == IF processing_frames THEN sample.frames ELSE <<sample>>

\* the mutant persists whether or not an eval_key is given
PersistingAlways(eval_key) == TRUE

\* eval_key is not None
Persisting(eval_key) == eval_key # None

\* the mutant starts the totals of a sample from the counts it already stores
InitialTotalFromField(doc, name) ==
    IF name \in DOMAIN doc.fields THEN doc.fields[name] ELSE 0

\* sample_tp = 0, sample_fp = 0, sample_fn = 0
InitialTotal(doc, name) == 0

\* the mutant records the evaluation info when the call starts
RecordAtEntry(ds, eval_key, pred_field, gt_field, cfg) ==
    IF eval_key # None
    THEN record_eval_info(ds, eval_key, pred_field, gt_field, cfg)
    ELSE ds

\* the mutant keeps only the matches of the latest image
ExtendReplaces(ms, image_matches) == image_matches

\* matches.extend(image_matches)
extend(ms, image_matches) == ms \o image_matches

\* what the call persists before the scan: nothing
EntryWrites(ds, eval_key, pred_field, gt_field, cfg) == ds

CallEvaluate(pred_field, gt_field, eval_key, method, cfg, kwargs) ==
    /\ pc = "idle"
    /\ nevals < MaxEvaluations
    /\ nevals' = nevals + 1
    /\ args' = [op |-> "evaluate", pred_field |-> pred_field, gt_field |-> gt_field,
                eval_key |-> eval_key, method |-> method, config |-> cfg,
                kwargs |-> kwargs]
    /\ before' = dataset
    /\ log' = <<>>
    /\ LET r == parse_config(cfg, method, kwargs)
       IN  IF r.ok
           THEN /\ config' = r.value
                /\ dataset' = EntryWrites(dataset, eval_key, pred_field, gt_field, r.value)
                /\ pc' = "loop"
                /\ result' = NoResult
           ELSE /\ config' = NoConfig
                /\ dataset' = dataset
                /\ pc' = "raised"
                /\ result' = [kind |-> "raised", error |-> r.error]
    /\ matches' = <<>>
    /\ idx' = 0
    /\ UNCHANGED <<sample, nimages, sample_tp, sample_fp, sample_fn, nclears, cleared,
                   failed, prev>>

\* the for statement: the next sample of samples.select_fields(...), or the end
NextSample ==
    /\ pc = "loop"
    /\ IF idx < Len(dataset.docs)
       THEN /\ sample' = dataset.docs[idx + 1]
            /\ nimages' = 0
            /\ sample_tp' = InitialTotal(dataset.docs[idx + 1], args.eval_key \o "_tp")
            /\ sample_fp' = InitialTotal(dataset.docs[idx + 1], args.eval_key \o "_fp")
            /\ sample_fn' = InitialTotal(dataset.docs[idx + 1], args.eval_key \o "_fn")
            /\ log' = Append(log, [ev |-> "fetch", sample |-> idx + 1])
            /\ pc' = "images"
       ELSE /\ pc' = "record"
            /\ UNCHANGED <<sample, nimages, sample_tp, sample_fp, sample_fn, log>>
    /\ UNCHANGED <<dataset, args, config, matches, idx, result, before, nevals, nclears, cleared,
                   failed, prev>>

\* one iteration of the loop over the images of the sample
EvaluateImage(image_matches) ==
    /\ pc = "images"
    /\ nimages < Len(images)
    /\ LET n == nimages + 1
           written == StrategyWrites(images[n], args.gt_field, args.pred_field,
                                     args.eval_key, image_matches)
           t == tally_matches(image_matches)
       IN  /\ sample' = IF processing_frames
                        THEN [sample EXCEPT !.frames[n] = written]
                        ELSE written
           /\ nimages' = n
           /\ matches' = extend(matches, image_matches)
           /\ sample_tp' = sample_tp + t.tp
           /\ sample_fp' = sample_fp + t.fp
           /\ sample_fn' = sample_fn + t.fn
           /\ log' = Append(log, [ev |-> "evaluate_image", sample |-> idx + 1,
                                  image |-> n, eval_key |-> args.eval_key,
                                  out |-> image_matches])
    /\ UNCHANGED <<dataset, pc, args, config, idx, result, before, nevals, nclears, cleared,
                   failed, prev>>

\* the mutant leaves the loop over the images after the first image
ImagesDoneAfterFirst == nimages >= 1 \/ nimages = Len(images)

\* for image in images: every image of the sample has been taken
ImagesDone == nimages = Len(images)

\* the end of the loop body: the sample's counts are set and the sample saved
SaveSample ==
    /\ pc = "images"
    /\ ImagesDone
    /\ IF Persisting(args.eval_key)
       THEN LET saved == [sample EXCEPT !.fields =
                            (args.eval_key \o "_tp" :> sample_tp)
                            @@ (args.eval_key \o "_fp" :> sample_fp)
                            @@ (args.eval_key \o "_fn" :> sample_fn)
                            @@ @]
            IN  /\ dataset' = [dataset EXCEPT !.docs[idx + 1] = saved]
                /\ sample' = saved
                /\ log' = Append(log, [ev |-> "save", sample |-> idx + 1])
       ELSE UNCHANGED <<dataset, sample, log>>
    /\ idx' = idx + 1
    /\ pc' = "loop"
    /\ UNCHANGED <<args, config, matches, nimages, sample_tp, sample_fp, sample_fn,
                   result, before, nevals, nclears, cleared,
                   failed, prev>>

\* a strategy call, a fetch or a save raises, or the caller stops the scan
ScanFails ==
    /\ \/ pc = "images"
       \/ pc = "loop" /\ idx < Len(dataset.docs)
    /\ pc' = "raised"
    /\ result' = [kind |-> "raised", error |-> "ScanError"]
    /\ failed' = IF args.eval_key # None THEN failed \cup {args.eval_key} ELSE failed
    /\ UNCHANGED <<dataset, args, config, matches, idx, sample, nimages,
                   sample_tp, sample_fp, sample_fn, before, log, nevals, nclears, cleared,
                   prev>>

\* after the scan: _record_eval_info, if an eval_key is given
RecordEvalInfo ==
    /\ pc = "record"
    /\ IF Persisting(args.eval_key)
       THEN /\ dataset' = record_eval_info(dataset, args.eval_key, args.pred_field,
                                           args.gt_field, config)
            /\ log' = Append(log, [ev |-> "record"])
       ELSE UNCHANGED <<dataset, log>>
    /\ pc' = "results"
    /\ UNCHANGED <<args, config, matches, idx, sample, nimages,
                   sample_tp, sample_fp, sample_fn, result, before, nevals, nclears, cleared,
                   failed, prev>>

\* return DetectionResults(matches, classes=classes, missing=missing)
BuildResults ==
    /\ pc = "results"
    /\ LET r == DetectionResults(matches, MISSING)
       IN  IF r.ok
           THEN /\ pc' = "returned"
                /\ result' = [kind |-> "returned", value |-> r.value]
           ELSE /\ pc' = "raised"
                /\ result' = [kind |-> "raised", error |-> r.error]
    /\ failed' = IF args.eval_key # None /\ ~DetectionResults(matches, MISSING).ok
                 THEN failed \cup {args.eval_key}
                 ELSE failed
    /\ UNCHANGED <<dataset, args, config, matches, idx, sample, nimages,
                   sample_tp, sample_fp, sample_fn, before, log, nevals, nclears, cleared,
                   prev>>

CallClear(eval_key) ==
    /\ pc = "idle"
    /\ nclears < MaxClears
    /\ nclears' = nclears + 1
    /\ args' = [op |-> "clear", eval_key |-> eval_key]
    /\ before' = dataset
    /\ LET r == clear_detection_evaluation(dataset, eval_key)
       IN  /\ dataset' = r.ds
           /\ IF r.ok
              THEN /\ pc' = "returned"
                   /\ result' = [kind |-> "returned"]
                   /\ cleared' = cleared \cup {eval_key}
              ELSE /\ pc' = "raised"
                   /\ result' = [kind |-> "raised", error |-> r.error]
                   /\ cleared' = cleared
    /\ UNCHANGED <<config, matches, idx, sample, nimages,
                   sample_tp, sample_fp, sample_fn, log, nevals, failed, prev>>

\* the caller has the outcome of the call: the locals of the call are gone
Return ==
    /\ pc \in {"returned", "raised"}
    /\ pc' = "idle"
    /\ args' = NoArgs
    /\ config' = NoConfig
    /\ matches' = <<>>
    /\ idx' = 0
    /\ sample' = NoSample
    /\ nimages' = 0
    /\ sample_tp' = 0
    /\ sample_fp' = 0
    /\ sample_fn' = 0
    /\ result' = NoResult
    /\ before' = dataset
    /\ log' = <<>>
    /\ prev' = IF /\ args.op = "evaluate"
                  /\ result.kind = "raised"
                  /\ result.error = "ScanError"
               THEN args.eval_key
               ELSE None
    /\ UNCHANGED <<dataset, nevals, nclears, cleared, failed>>

Init ==
    /\ dataset \in Datasets
    /\ pc = "idle"
    /\ args = NoArgs
    /\ config = NoConfig
    /\ matches = <<>>
    /\ idx = 0
    /\ sample = NoSample
    /\ nimages = 0
    /\ sample_tp = 0
    /\ sample_fp = 0
    /\ sample_fn = 0
    /\ result = NoResult
    /\ before = dataset
    /\ log = <<>>
    /\ nevals = 0
    /\ nclears = 0
    /\ cleared = {}
    /\ failed = {}
    /\ prev = None

Evaluate ==
    \E pair \in FieldPairs(dataset), eval_key \in Keys \cup {None},
       sel \in EvalSelections :
        CallEvaluate(pair[1], pair[2], eval_key, sel[1], sel[2], EmptyFn)

Strategy == \E image_matches \in ImageMatchLists : EvaluateImage(image_matches)

Clear == \E eval_key \in Keys : CallClear(eval_key)

Next ==
    \/ Evaluate
    \/ NextSample
    \/ Strategy
    \/ SaveSample
    \/ ScanFails
    \/ RecordEvalInfo
    \/ BuildResults
    \/ Clear
    \/ Return

Spec == Init /\ [][Next]_vars

-----------------------------------------------------------------------------
(* The pure functions on their own: the call's arguments are drawn at the start *)

\* the locals of evaluate_detections, unused by a call of a pure function
NoLocals ==
    /\ config = NoConfig
    /\ matches = <<>>
    /\ idx = 0
    /\ sample = NoSample
    /\ nimages = 0
    /\ sample_tp = 0
    /\ sample_fp = 0
    /\ sample_fn = 0
    /\ result = NoResult
    /\ before = dataset
    /\ log = <<>>
    /\ nevals = 0
    /\ nclears = 0
    /\ cleared = {}
    /\ failed = {}
    /\ prev = None

\* _tally_matches(matches) for every list of matches up to MaxTallyLen
TallyInputs == SeqsUpTo(MatchValues, MaxTallyLen)

TallyInit ==
    /\ dataset \in Datasets
    /\ pc = "call"
    /\ args \in {[op |-> "tally", matches |-> ms] : ms \in TallyInputs}
    /\ NoLocals

TallyCall ==
    /\ pc = "call"
    /\ args.op = "tally"
    /\ pc' = "returned"
    /\ result' = [kind |-> "returned", value |-> tally_matches(args.matches)]
    /\ UNCHANGED <<dataset, args, config, matches, idx, sample, nimages,
                   sample_tp, sample_fp, sample_fn, before, log, nevals, nclears, cleared,
                   failed, prev>>

TallyNext == TallyCall

TallySpec == TallyInit /\ [][TallyNext]_vars

\* _parse_config(config, method, **kwargs) for every selection and overrides
ResolveInit ==
    /\ dataset \in Datasets
    /\ pc = "call"
    /\ args \in {[op |-> "resolve", method |-> m, config |-> c, kwargs |-> k] :
                    m \in Methods, c \in Configs, k \in Kwargs}
    /\ NoLocals

ResolveCall ==
    /\ pc = "call"
    /\ args.op = "resolve"
    /\ LET r == parse_config(args.config, args.method, args.kwargs)
       IN  IF r.ok
           THEN /\ pc' = "returned"
                /\ result' = [kind |-> "returned", value |-> r.value]
           ELSE /\ pc' = "raised"
                /\ result' = [kind |-> "raised", error |-> r.error]
    /\ UNCHANGED <<dataset, args, config, matches, idx, sample, nimages,
                   sample_tp, sample_fp, sample_fn, before, log, nevals, nclears, cleared,
                   failed, prev>>

ResolveNext == ResolveCall

ResolveSpec == ResolveInit /\ [][ResolveNext]_vars

-----------------------------------------------------------------------------
(* Claims about _tally_matches, checked under TallySpec *)

TallyReturned == pc = "returned" /\ args.op = "tally"

BothAbsent(m) == m[1] = None /\ m[2] = None

\* C1: for every list of matches, lists with a pair of two absent sides
\* included, the returned counts add up to the length of the list:
\* tp + fp + fn = len(matches).
C1_TallyTotal ==
    TallyReturned =>
        result.value.tp + result.value.fp + result.value.fn = Len(args.matches)

\* a list of full length that holds a pair of two absent sides has been tallied
C1_Witness ==
    /\ TallyReturned
    /\ Len(args.matches) = MaxTallyLen
    /\ \E i \in DOMAIN args.matches : BothAbsent(args.matches[i])
    /\ \E i \in DOMAIN args.matches : ~BothAbsent(args.matches[i])

GtAbsent(ms) == {i \in DOMAIN ms : ms[i][1] = None}
PredAbsentOnly(ms) == {i \in DOMAIN ms : ms[i][1] # None /\ ms[i][2] = None}
BothPresent(ms) == {i \in DOMAIN ms : ms[i][1] # None /\ ms[i][2] # None}

\* C2: each match adds one to exactly one counter: gt absent is a false
\* positive, gt present and pred absent a false negative, both present a true
\* positive whether or not the labels agree; so every counter is the number of
\* matches of its shape.
C2_TallyByShape ==
    TallyReturned =>
        /\ result.value.fp = Cardinality(GtAbsent(args.matches))
        /\ result.value.fn = Cardinality(PredAbsentOnly(args.matches))
        /\ result.value.tp = Cardinality(BothPresent(args.matches))

\* the spec's example: a list with all three shapes and a pair of different
\* labels, which counts as a true positive
C2_Witness ==
    /\ TallyReturned
    /\ args.matches = <<<<"cat", "cat">>, <<"dog", None>>, <<"cat", "dog">>>>
    /\ result.value = [tp |-> 2, fp |-> 0, fn |-> 1]

-----------------------------------------------------------------------------
(* Claims about _parse_config, checked under ResolveSpec *)

ResolveDone == args.op = "resolve" /\ pc \in {"returned", "raised"}

\* a method name that is a string and not one of list_detection_methods()
UnknownMethod(method) == method # None /\ method \notin list_detection_methods

Rejected == pc = "raised" /\ result.error = "ValueError"

\* C8 as stated: list_methods() includes the default method and resolve
\* rejects any other string given as the method name with a configuration
\* error.
C8_AsStated ==
    /\ DEFAULT_METHOD \in list_detection_methods
    /\ (ResolveDone /\ UnknownMethod(args.method)) => Rejected

\* C8, amended: list_methods() includes the default method, and resolve
\* called without a config rejects any other string given as the method name
\* with a configuration error (with a config the method name is not looked at).
C8_ResolveRejectsUnknown ==
    /\ DEFAULT_METHOD \in list_detection_methods
    /\ (ResolveDone /\ args.config = NoConfig /\ UnknownMethod(args.method)) => Rejected
    /\ (ResolveDone /\ args.config = NoConfig /\ ~UnknownMethod(args.method)) => pc = "returned"

\* an unknown method name without a config has been rejected
C8_Witness ==
    /\ ResolveDone
    /\ args.config = NoConfig
    /\ args.method = "yolo"
    /\ Rejected

-----------------------------------------------------------------------------
(* Claims about evaluate_detections and clear_detection_evaluation, under Spec *)

EvalCall == args.op = "evaluate"
ClearCall == args.op = "clear"
Named == EvalCall /\ args.eval_key # None

\* the events of one kind in the log of the call
Events(kind) == SelectSeq(log, LAMBDA e : e.ev = kind)

\* the matches the strategy returned for the images of sample i, in order
RECURSIVE ConcatOut(_, _)
ConcatOut(evs, i) ==
    IF evs = <<>> THEN <<>>
    ELSE (IF Head(evs).sample = i THEN Head(evs).out ELSE <<>>) \o ConcatOut(Tail(evs), i)

SampleMatches(i) == ConcatOut(Events("evaluate_image"), i)

\* the counts that a sample document stores under an eval_key
HasCounts(doc, k) ==
    {k \o "_tp", k \o "_fp", k \o "_fn"} \subseteq DOMAIN doc.fields

StoredCounts(doc, k) ==
    [tp |-> doc.fields[k \o "_tp"], fp |-> doc.fields[k \o "_fp"],
     fn |-> doc.fields[k \o "_fn"]]

\* the number of images of sample i in the call in progress
NumImages(i) == IF processing_frames THEN Len(dataset.docs[i].frames) ELSE 1

\* the scan and the record of a named run are over
Recorded == Named /\ Events("record") # <<>>

\* C9 as stated: an unknown method name makes evaluate fail with a
\* configuration error before any scanning: nothing fetched, no strategy call,
\* nothing written or saved, no evaluation info recorded.
C9_AsStated ==
    (EvalCall /\ UnknownMethod(args.method)) =>
        /\ Rejected
        /\ log = <<>>
        /\ matches = <<>>
        /\ dataset = before

\* C9, amended: an unknown method name given without a config makes evaluate
\* fail with a configuration error before any scanning: nothing fetched, no
\* strategy call, nothing written or saved, no evaluation info recorded.
C9_UnknownMethodFailsBeforeScan ==
    (EvalCall /\ args.config = NoConfig /\ UnknownMethod(args.method)) =>
        /\ Rejected
        /\ log = <<>>
        /\ matches = <<>>
        /\ dataset = before

\* evaluate with an unknown method and no config has failed, on a collection
\* that an earlier named run has written to
C9_Witness ==
    /\ EvalCall
    /\ args.config = NoConfig
    /\ UnknownMethod(args.method)
    /\ Rejected
    /\ dataset.evaluations # EmptyFn

\* what the sample documents of a recorded run store under its eval_key: the
\* tally of the matches of this run alone
CountsOfThisRun ==
    \A i \in DOMAIN dataset.docs :
        /\ HasCounts(dataset.docs[i], args.eval_key)
        /\ StoredCounts(dataset.docs[i], args.eval_key) = tally_matches(SampleMatches(i))

\* C4: a run with an eval_key that was used before overwrites: once the run
\* has recorded, every sample's <key>_tp, <key>_fp, <key>_fn are the counts of
\* this run alone, and the evaluation info under the key holds this run's
\* pred_field, gt_field and config only.
C4_RerunOverwrites ==
    Recorded =>
        /\ CountsOfThisRun
        /\ dataset.evaluations[args.eval_key] =
               [pred_field |-> args.pred_field, gt_field |-> args.gt_field,
                config |-> config]

\* a second run under a recorded key has returned, with other counts for the
\* first sample and another config than the first run left
C4_Witness ==
    /\ Recorded
    /\ pc = "returned"
    /\ args.eval_key \in DOMAIN before.evaluations
    /\ before.evaluations[args.eval_key].config # config
    /\ HasCounts(before.docs[1], args.eval_key)
    /\ StoredCounts(before.docs[1], args.eval_key).fp = 1
    /\ StoredCounts(dataset.docs[1], args.eval_key).fp = 0
    /\ StoredCounts(dataset.docs[1], args.eval_key).tp = 1

\* C5: evaluation info for a key is created only by a named run with that key
\* that completes successfully and removed only by a clear of that key: an
\* evaluate call that ends in an error leaves no entry that was not there
\* before the call, and only clear(k) removes the entry of k.
C5_InfoOnlyOnSuccess ==
    /\ (EvalCall /\ pc = "raised") =>
           DOMAIN dataset.evaluations \subseteq DOMAIN before.evaluations
    /\ \A k \in DOMAIN dataset.evaluations \ DOMAIN before.evaluations :
           EvalCall /\ args.eval_key = k
    /\ \A k \in DOMAIN before.evaluations \ DOMAIN dataset.evaluations :
           ClearCall /\ args.eval_key = k

\* the scan of an evaluate call was stopped before it completed
ScanStopped == EvalCall /\ pc = "raised" /\ result.error = "ScanError"

\* C6: when the scan of a named run stops before completion, the samples
\* already saved keep the counts of the run, the samples not yet saved are as
\* they were before the call, no sample is fetched twice and the evaluation
\* info of the run is not written.
C6_StoppedScanIsPartial ==
    (ScanStopped /\ Named) =>
        /\ \A i \in 1..idx :
               /\ HasCounts(dataset.docs[i], args.eval_key)
               /\ StoredCounts(dataset.docs[i], args.eval_key)
                      = tally_matches(SampleMatches(i))
        /\ \A i \in (idx + 1)..Len(dataset.docs) : dataset.docs[i] = before.docs[i]
        /\ dataset.evaluations = before.evaluations
        /\ Len(Events("save")) = idx
        /\ Len(Events("fetch")) \in {idx, idx + 1}
        /\ \A n \in DOMAIN Events("fetch") : Events("fetch")[n].sample = n
        /\ Events("record") = <<>>

\* a named scan has stopped in its second sample after the strategy wrote to
\* it: the first sample has its counts, the second is as before, no info
C6_Witness ==
    /\ ScanStopped /\ Named
    /\ idx = 1
    /\ nimages = 1
    /\ sample # before.docs[2]
    /\ StoredCounts(dataset.docs[1], args.eval_key).tp = 1
    /\ ~HasCounts(dataset.docs[2], args.eval_key)
    /\ args.eval_key \notin DOMAIN dataset.evaluations

\* the number of images of all samples of the collection
RECURSIVE TotalImages(_)
TotalImages(n) == IF n = 0 THEN 0 ELSE NumImages(n) + TotalImages(n - 1)

\* C7: with no eval_key nothing is persisted: no sample field is written, no
\* sample saved, no evaluation info recorded, every strategy call gets an
\* absent eval_key, and after the scan the strategy has been called for every
\* image; the persisted collection is the one before the call.
C7_NoKeyNoPersistence ==
    (EvalCall /\ args.eval_key = None) =>
        /\ dataset = before
        /\ Events("save") = <<>>
        /\ Events("record") = <<>>
        /\ \A n \in DOMAIN log :
               log[n].ev = "evaluate_image" => log[n].eval_key = None
        /\ pc \in {"record", "results", "returned"} =>
               Len(Events("evaluate_image")) = TotalImages(Len(dataset.docs))

\* an un-named run has returned matches, on a collection that holds the fields
\* of an earlier named run
C7_Witness ==
    /\ EvalCall /\ args.eval_key = None
    /\ pc = "returned"
    /\ Len(matches) = 2
    /\ dataset.evaluations # EmptyFn
    /\ dataset = before

-----------------------------------------------------------------------------
(* Claims about clear_detection_evaluation, under Spec *)

Cleared == ClearCall /\ pc = "returned"

\* the detection attributes left after a clear of eval_key k whose info names
\* the label fields cleared
ClearedDets(dets, fields, k) ==
    [f \in LabelFields |-> IF f \in fields THEN dets[f] \ EvalAttrs(k) ELSE dets[f]]

\* a sample document without what a run under k with the fields of info added
ClearedDoc(doc, info, k, frame_level) ==
    LET fields == {FieldName(info.pred_field), FieldName(info.gt_field)}
    IN  [fields |-> [n \in DOMAIN doc.fields \ {k \o "_tp", k \o "_fp", k \o "_fn"}
                        |-> doc.fields[n]],
         dets   |-> IF frame_level THEN doc.dets ELSE ClearedDets(doc.dets, fields, k),
         frames |-> [n \in DOMAIN doc.frames |->
                        [dets |-> IF frame_level
                                  THEN ClearedDets(doc.frames[n].dets, fields, k)
                                  ELSE doc.frames[n].dets]]]

\* C3: clear(k) after a completed evaluate with k removes exactly what the
\* evaluation added (<k>_id and <k>_iou on the detections of its prediction
\* and ground truth fields, <k>_tp, <k>_fp, <k>_fn of every sample, the
\* evaluation info of k) and leaves every other sample field, detection
\* field and evaluation info as it was.
C3_ClearRemovesExactly ==
    Cleared =>
        LET k == args.eval_key
            info == before.evaluations[k]
            frame_level == before.media_type = VIDEO /\ info.pred_field[1] = FRAMES_PREFIX
        IN  /\ dataset.media_type = before.media_type
            /\ DOMAIN dataset.evaluations = DOMAIN before.evaluations \ {k}
            /\ \A j \in DOMAIN dataset.evaluations :
                   dataset.evaluations[j] = before.evaluations[j]
            /\ DOMAIN dataset.docs = DOMAIN before.docs
            /\ \A i \in DOMAIN before.docs :
                   dataset.docs[i] = ClearedDoc(before.docs[i], info, k, frame_level)

\* a clear has removed the counts, the detection attributes and the info of
\* its key while those of the other key stay
C3_Witness ==
    /\ Cleared
    /\ DOMAIN before.evaluations = Keys
    /\ DOMAIN dataset.evaluations = Keys \ {args.eval_key}
    /\ \E j \in Keys \ {args.eval_key} :
           /\ HasCounts(dataset.docs[1], j)
           /\ EvalAttrs(j) \subseteq dataset.docs[1].dets["predictions"]
    /\ EvalAttrs(args.eval_key) \subseteq before.docs[1].dets["predictions"]
    /\ EvalAttrs(args.eval_key) \cap dataset.docs[1].dets["predictions"] = {}
    /\ HasCounts(before.docs[1], args.eval_key)
    /\ ~HasCounts(dataset.docs[1], args.eval_key)

\* C10: clear with an eval_key that was never recorded, or that a clear has
\* already removed, fails with a not-found error and removes or changes
\* nothing.
C10_ClearUnknownKeyFails ==
    (ClearCall /\ args.eval_key \notin DOMAIN before.evaluations) =>
        /\ pc = "raised"
        /\ result.error = "KeyError"
        /\ dataset = before

\* a second clear of a key has failed, on a collection that still holds the
\* counts of another run
C10_Witness ==
    /\ ClearCall
    /\ pc = "raised"
    /\ args.eval_key \in cleared
    /\ args.eval_key \notin DOMAIN before.evaluations
    /\ \E j \in Keys : HasCounts(dataset.docs[1], j)

-----------------------------------------------------------------------------
(* Claims about a stopped scan followed by a clear, under Spec *)

\* the call in progress is a clear with the key of the named scan that the
\* call before it left stopped
ClearFollowsStoppedScan == ClearCall /\ prev = args.eval_key

\* the samples saved by the stopped scan hold the counts of key k
SavedHoldCounts(ds, k, n) == \A i \in 1..n : HasCounts(ds.docs[i], k)

\* the clear failed on the lookup of its key and changed nothing
ClearFailedOnLookup ==
    /\ pc = "raised"
    /\ result.error = "KeyError"
    /\ dataset = before

\* C11 as stated: after a named scan is stopped before completion the samples
\* saved hold the per-sample fields and the key has no evaluation info, and
\* a clear with that key right after it fails on the key lookup and leaves
\* the fields.
C11_AsStated ==
    /\ (ScanStopped /\ Named) =>
           /\ SavedHoldCounts(dataset, args.eval_key, idx)
           /\ args.eval_key \notin DOMAIN dataset.evaluations
    /\ ClearFollowsStoppedScan => ClearFailedOnLookup

\* C11, amended: after a named scan under a key that has no recorded
\* evaluation is stopped before completion, the samples saved hold the
\* per-sample fields and the key has no evaluation info, and a clear with
\* that key right after it fails on the key lookup and leaves the fields.
C11_StoppedScanCannotBeCleared ==
    /\ (ScanStopped /\ Named /\ args.eval_key \notin DOMAIN before.evaluations) =>
           /\ SavedHoldCounts(dataset, args.eval_key, idx)
           /\ args.eval_key \notin DOMAIN dataset.evaluations
    /\ (ClearFollowsStoppedScan /\ args.eval_key \notin DOMAIN before.evaluations) =>
           ClearFailedOnLookup

\* a clear right after a stopped scan of a never recorded key has failed: the
\* first sample still holds the counts of the key, the second never got them
C11_Witness ==
    /\ ClearFollowsStoppedScan
    /\ ClearFailedOnLookup
    /\ args.eval_key \notin DOMAIN dataset.evaluations
    /\ HasCounts(dataset.docs[1], args.eval_key)
    /\ ~HasCounts(dataset.docs[2], args.eval_key)
-----------------------------------------------------------------------------
(* Claims about the per-sample totals and the order of a run, under Spec *)

\* the number of units of sample i: its frames if and only if the collection
\* is a video collection and the prediction field has the frames prefix,
\* otherwise the sample itself
Units(i) ==
    IF dataset.media_type = VIDEO /\ args.pred_field[1] = FRAMES_PREFIX
    THEN Len(dataset.docs[i].frames)
    ELSE 1

\* the strategy calls made for sample i, in order
ImageEvents(i) == SelectSeq(log, LAMBDA e : e.ev = "evaluate_image" /\ e.sample = i)

\* the sum of the tallies of the outputs of strategy calls
RECURSIVE SumTallies(_)
SumTallies(evs) ==
    IF evs = <<>> THEN [tp |-> 0, fp |-> 0, fn |-> 0]
    ELSE LET t == tally_matches(Head(evs).out)
             r == SumTallies(Tail(evs))
         IN  [tp |-> t.tp + r.tp, fp |-> t.fp + r.fp, fn |-> t.fn + r.fn]

\* C12: for every sample that a named run has saved, the strategy was called
\* exactly once for each of its units, in order, and the stored <key>_tp,
\* <key>_fp, <key>_fn are the sums of the tallies of those calls; a sample
\* with no frames in frame mode stores (0, 0, 0).
C12_TotalsAreSumsOverUnits ==
    Named =>
        \A i \in 1..idx :
            /\ Len(ImageEvents(i)) = Units(i)
            /\ \A n \in 1..Units(i) : ImageEvents(i)[n].image = n
            /\ HasCounts(dataset.docs[i], args.eval_key)
            /\ StoredCounts(dataset.docs[i], args.eval_key) = SumTallies(ImageEvents(i))
            /\ Units(i) = 0 =>
                   StoredCounts(dataset.docs[i], args.eval_key)
                       = [tp |-> 0, fp |-> 0, fn |-> 0]

\* a named run in frame mode has saved a sample of two frames with one match
\* each and a sample without frames, which stores (0, 0, 0)
C12_Witness ==
    /\ Named
    /\ idx = 2
    /\ args.pred_field = FRAMES_PRED
    /\ Units(1) = 2
    /\ Units(2) = 0
    /\ StoredCounts(dataset.docs[1], args.eval_key) = [tp |-> 0, fp |-> 1, fn |-> 1]
    /\ StoredCounts(dataset.docs[2], args.eval_key) = [tp |-> 0, fp |-> 0, fn |-> 0]
\* the strategy calls for sample i among the first p events of the log
CallsBefore(p, i) == Len(SelectSeq(SubSeq(log, 1, p),
                                   LAMBDA e : e.ev = "evaluate_image" /\ e.sample = i))

\* C13: in a named run the events are strictly ordered: the strategy calls
\* for all units of sample i come before the save of sample i, the save of
\* sample i before any event of sample i+1, and the evaluation info is
\* written once, after the save of the last sample; no two samples are in
\* progress at the same time.
C13_RunIsStrictlyOrdered ==
    Named =>
        /\ \A p, q \in DOMAIN log :
               p < q =>
                   /\ log[p].ev # "record"
                   /\ log[q].ev # "record" =>
                          /\ log[p].sample <= log[q].sample
                          /\ log[p].ev = "save" => log[p].sample < log[q].sample
        /\ \A p \in DOMAIN log :
               log[p].ev = "save" => CallsBefore(p, log[p].sample) = Units(log[p].sample)
        /\ \A n \in DOMAIN Events("save") : Events("save")[n].sample = n
        /\ Len(Events("record")) <= 1
        /\ Events("record") # <<>> => Len(Events("save")) = Len(dataset.docs)
        /\ Events("record") = <<>> => dataset.evaluations = before.evaluations

\* a named run in frame mode has recorded after two strategy calls for the
\* first sample, its save and the save of the second sample
C13_Witness ==
    /\ Recorded
    /\ args.pred_field = FRAMES_PRED
    /\ Len(log) = 7
    /\ log[3].ev = "evaluate_image" /\ log[3].out # <<>>
    /\ log[4].ev = "save"
    /\ log[6].ev = "save"
    /\ log[7].ev = "record"
-----------------------------------------------------------------------------
(* Claims about the match accumulator and the results, under Spec *)

IsPrefix(s, t) == Len(s) <= Len(t) /\ SubSeq(t, 1, Len(s)) = s

\* the outputs of the strategy calls for the samples 1..n, sample by sample and,
\* within a sample, call by call
RECURSIVE OutputsInOrder(_)
OutputsInOrder(n) ==
    IF n = 0 THEN <<>> ELSE OutputsInOrder(n - 1) \o SampleMatches(n)

\* C14: during a scan the match accumulator only grows at its end: its content
\* before a step of the scan is a prefix of its content after the step, and
\* at every point of the scan, its end included, it is the concatenation of
\* the strategy outputs so far in sample order, unit order and strategy
\* order.
C14_AccumulatorAppendOnly ==
    /\ [](EvalCall => matches = OutputsInOrder(Len(dataset.docs)))
    /\ [][(EvalCall /\ EvalCall') => IsPrefix(matches, matches')]_vars

\* a scan over both samples is complete with three matches accumulated: the
\* two of the first sample, in the order the strategy gave them, then one of
\* the second
C14_Witness ==
    /\ EvalCall
    /\ pc = "record"
    /\ SampleMatches(1) = TwoMatches
    /\ Len(SampleMatches(2)) = 1
    /\ matches = TwoMatches \o SampleMatches(2)
\* the scan of the evaluate call is complete and the call is over
CompletedCallOver ==
    /\ EvalCall
    /\ pc \in {"returned", "raised"}
    /\ idx = Len(dataset.docs)

\* a side of a match as the results hold it: an absent side is the missing label
Side(x) == IF x = None THEN MISSING ELSE x

\* C15: for every accumulator of a completed scan, the empty accumulator
\* included, evaluate returns a results object whose ytrue and ypred are as
\* long as the accumulator, with the ground truth side and the prediction
\* side of match i at position i.
C15_ResultsForEveryAccumulator ==
    CompletedCallOver =>
        /\ pc = "returned"
        /\ Len(result.value.ytrue) = Len(matches)
        /\ Len(result.value.ypred) = Len(matches)
        /\ \A i \in DOMAIN matches :
               /\ result.value.ytrue[i] = Side(matches[i][1])
               /\ result.value.ypred[i] = Side(matches[i][2])
-----------------------------------------------------------------------------
(* Claims about the keyword overrides of _parse_config, under ResolveSpec *)

\* C16: resolve sets every keyword override as an option on the resolved
\* config, whether or not the option name is known and whether the config was
\* defaulted or supplied; it never rejects an override (it fails only for an
\* unknown method given without a config, whatever the overrides); and with a
\* config supplied the method name is ignored: the result is the supplied
\* config with the overrides set.
C16_OverridesAlwaysApplied ==
    ResolveDone =>
        /\ pc = "raised" <=> (args.config = NoConfig /\ UnknownMethod(args.method))
        /\ pc = "returned" =>
               LET attrs == result.value.attrs
               IN  /\ \A n \in DOMAIN args.kwargs :
                          n \in DOMAIN attrs /\ attrs[n] = args.kwargs[n]
                   /\ DOMAIN attrs = DOMAIN args.kwargs \cup DOMAIN args.config.attrs
                   /\ \A n \in DOMAIN args.config.attrs \ DOMAIN args.kwargs :
                          attrs[n] = args.config.attrs[n]
                   /\ result.value.cls = IF args.config = NoConfig
                                         THEN COCOEvaluationConfig.cls
                                         ELSE args.config.cls

\* a supplied config with an option set, given along with an unknown method
\* name, an override of that option and an override with an unknown name, has
\* come back with both overrides set
C16_Witness ==
    /\ ResolveDone
    /\ pc = "returned"
    /\ args.method = "yolo"
    /\ args.config # NoConfig
    /\ "iou" \in DOMAIN args.config.attrs
    /\ DOMAIN args.kwargs = {"iou", "no_such_option"}
    /\ result.value.attrs["iou"] = 75
    /\ result.value.attrs["no_such_option"] = 25
    /\ result.value.cls = CustomConfig.cls
-----------------------------------------------------------------------------
(* Claims about the persisted totals and the accumulator, under Spec *)

\* a named run is between two samples or past its scan
BetweenSamples ==
    /\ Named
    /\ \/ pc \in {"loop", "record", "results", "returned"}
       \/ CompletedCallOver

\* the sum of <k>_tp + <k>_fp + <k>_fn over the samples 1..n
RECURSIVE PersistedTotal(_, _)
PersistedTotal(k, n) ==
    IF n = 0 THEN 0
    ELSE LET c == StoredCounts(dataset.docs[n], k)
         IN  c.tp + c.fp + c.fn + PersistedTotal(k, n - 1)

\* C17: after every sample save of a named run, and at the end of a completed
\* named run, the sum over the saved samples of <key>_tp + <key>_fp + <key>_fn
\* equals the current length of the match accumulator, and each stored count
\* is non-negative.
C17_PersistedTotalIsAccumulatorLength ==
    BetweenSamples =>
        /\ PersistedTotal(args.eval_key, idx) = Len(matches)
        /\ \A i \in 1..idx :
               LET c == StoredCounts(dataset.docs[i], args.eval_key)
               IN  c.tp >= 0 /\ c.fp >= 0 /\ c.fn >= 0

\* a named run has returned: its two samples store three counts in all, an
\* unmatched ground truth among them, and the results hold three matches
C17_Witness ==
    /\ Named
    /\ pc = "returned"
    /\ idx = 2
    /\ StoredCounts(dataset.docs[1], args.eval_key) = [tp |-> 1, fp |-> 0, fn |-> 1]
    /\ StoredCounts(dataset.docs[2], args.eval_key) = [tp |-> 0, fp |-> 1, fn |-> 0]
    /\ Len(matches) = 3
    /\ Len(result.value.ytrue) = 3
-----------------------------------------------------------------------------
(* Claims about what a clear leaves behind, under Spec *)

\* the detections of some label field of the document carry an attribute
\* that a run under k wrote
HasEvalAttrs(dets, k) == \E f \in LabelFields : dets[f] \cap EvalAttrs(k) # {}

\* something derived from k is persisted on the document or one of its frames
DerivedFromKey(doc, k) ==
    \/ DOMAIN doc.fields \cap SampleCountFields(k) # {}
    \/ HasEvalAttrs(doc.dets, k)
    \/ \E n \in DOMAIN doc.frames : HasEvalAttrs(doc.frames[n].dets, k)

\* C18: after a successful clear(k) that follows only runs under k that
\* completed (with whatever prediction and ground truth fields, no run under
\* k having ended in an error), nothing derived from k
\* is left: no <k>_tp, <k>_fp, <k>_fn on a sample, no <k>_id, <k>_iou on the
\* detections of any label field of a sample or frame, no evaluation info
\* for k.
C18_ClearLeavesNothing ==
    (Cleared /\ args.eval_key \notin failed) =>
        /\ args.eval_key \notin DOMAIN dataset.evaluations
        /\ \A i \in DOMAIN dataset.docs : ~DerivedFromKey(dataset.docs[i], args.eval_key)
====
